---- MODULE Spec2Model ----
(***************************************************************************)
(* Model of buildromannumeralswithfeatures.py: the macro that builds the   *)
(* Roman numeral glyphs of a font as composites of the letters I V X L C   *)
(* D M (create_roman_glyphs) and merges two blocks of substitution rules   *)
(* into the features ss01 and liga (add_opentype_features).                *)
(*                                                                         *)
(* The font document is the state: glyphs (font.glyphs, a list of glyph    *)
(* records), features (font.features, a list of [name, code]) and the      *)
(* console output of the current run (log).  One action per iteration of   *)
(* the loop of create_roman_glyphs, one per call of update_feature, one    *)
(* for the reordering step, one for running the macro again.               *)
(*                                                                         *)
(* Texts (rule blocks, feature code) are sequences of tokens: a token is   *)
(* one whitespace character (" " or "\n"), one punctuation character or    *)
(* one word.  strip, +, "in" and the regular expression of update_feature  *)
(* are computed on these sequences as Python computes them on characters.  *)
(* The glyph names of the table are the characters U+2160..U+216F; they    *)
(* are written "<U+2160>".."<U+216F>" here.                                *)
(***************************************************************************)
EXTENDS Naturals, Sequences, FiniteSets, TLC

VARIABLES glyphs, features, log, pc, idx, rerun, features0

vars == <<glyphs, features, log, pc, idx, rerun, features0>>

(***************************************************************************)
(* Bounds of the explored documents.                                       *)
(***************************************************************************)
NumMasters == 2

MaxWidth == 2

MaxDefects == 2

MaxFeatures == 3

(***************************************************************************)
(* Static data of the program.                                             *)
(***************************************************************************)
roman_glyphs ==
    << [unicode_hex |-> "2160", glyph_name |-> "<U+2160>", components |-> <<"I">>],
       [unicode_hex |-> "2161", glyph_name |-> "<U+2161>", components |-> <<"I", "I">>],
       [unicode_hex |-> "2162", glyph_name |-> "<U+2162>", components |-> <<"I", "I", "I">>],
       [unicode_hex |-> "2163", glyph_name |-> "<U+2163>", components |-> <<"I", "V">>],
       [unicode_hex |-> "2164", glyph_name |-> "<U+2164>", components |-> <<"V">>],
       [unicode_hex |-> "2165", glyph_name |-> "<U+2165>", components |-> <<"V", "I">>],
       [unicode_hex |-> "2166", glyph_name |-> "<U+2166>", components |-> <<"V", "I", "I">>],
       [unicode_hex |-> "2167", glyph_name |-> "<U+2167>", components |-> <<"V", "I", "I", "I">>],
       [unicode_hex |-> "2168", glyph_name |-> "<U+2168>", components |-> <<"I", "X">>],
       [unicode_hex |-> "2169", glyph_name |-> "<U+2169>", components |-> <<"X">>],
       [unicode_hex |-> "216A", glyph_name |-> "<U+216A>", components |-> <<"X", "I">>],
       [unicode_hex |-> "216B", glyph_name |-> "<U+216B>", components |-> <<"X", "I", "I">>],
       [unicode_hex |-> "216C", glyph_name |-> "<U+216C>", components |-> <<"L">>],
       [unicode_hex |-> "216D", glyph_name |-> "<U+216D>", components |-> <<"C">>],
       [unicode_hex |-> "216E", glyph_name |-> "<U+216E>", components |-> <<"D">>],
       [unicode_hex |-> "216F", glyph_name |-> "<U+216F>", components |-> <<"M">>],
       [unicode_hex |-> "", glyph_name |-> "Twenty-roman", components |-> <<"X", "X">>] >>

Indent == <<" ", " ">>

RECURSIVE Spaced(_)
Spaced(ws) ==
    IF Len(ws) <= 1 THEN ws ELSE <<Head(ws), " ">> \o Spaced(Tail(ws))

\* One line "  sub <lhs> by <rhs>;\n" of a rule block.
SubLine(lhs, rhs) ==
    Indent \o Spaced(<<"sub">> \o lhs \o <<"by", rhs>>) \o <<";", "\n">>

ss01_rules ==
    <<"\n">> \o Indent
    \o <<"#", " ", "Single", " ", "substitutions", " ",
         "(", "Arabic", " ", "to", " ", "Roman", ")", "\n">>
    \o SubLine(<<"one">>, "One-roman")
    \o SubLine(<<"two">>, "Two-roman")
    \o SubLine(<<"three">>, "Three-roman")
    \o SubLine(<<"four">>, "Four-roman")
    \o SubLine(<<"five">>, "Five-roman")
    \o SubLine(<<"six">>, "Six-roman")
    \o SubLine(<<"seven">>, "Seven-roman")
    \o SubLine(<<"eight">>, "Eight-roman")
    \o SubLine(<<"nine">>, "Nine-roman")

liga_rules ==
    <<"\n">> \o Indent
    \o <<"#", " ", "Ligature", " ", "substitutions", "\n">>
    \o SubLine(<<"One-roman", "zero">>, "Ten-roman")
    \o SubLine(<<"One-roman", "One-roman">>, "Eleven-roman")
    \o SubLine(<<"One-roman", "Two-roman">>, "Twelve-roman")
    \o SubLine(<<"Two-roman", "zero">>, "Twenty-roman")
    \o SubLine(<<"Five-roman", "zero">>, "Fifty-roman")
    \o SubLine(<<"One-roman", "zero", "zero">>, "Hundred-roman")
    \o SubLine(<<"Five-roman", "zero", "zero">>, "Fivehundred-roman")
    \o SubLine(<<"One-roman", "zero", "zero", "zero">>, "Thousand-roman")

\* font.masters: the master ids, in order.
masters == [k \in 1..NumMasters |-> "m" \o ToString(k)]

(***************************************************************************)
(* Text primitives.                                                        *)
(***************************************************************************)
IsWs(t) == t \in {" ", "\n"}

Punct == {";", "#", "(", ")"}

\* A token of [A-Za-z0-9_.-]+
IsName(t) == ~IsWs(t) /\ t \notin Punct

\* str.strip()
Strip(s) ==
    LET keep == {k \in 1..Len(s) : ~IsWs(s[k])}
    IN  IF keep = {} THEN <<>>
        ELSE LET lo == CHOOSE k \in keep : \A j \in keep : k <= j
                 hi == CHOOSE k \in keep : \A j \in keep : k >= j
             IN  SubSeq(s, lo, hi)

\* needle in hay
Contains(hay, needle) ==
    \E k \in 0..Len(hay) :
        /\ k + Len(needle) <= Len(hay)
        /\ SubSeq(hay, k + 1, k + Len(needle)) = needle

\* set(re.findall(r"\bby\s+([A-Za-z0-9_.-]+);", rules))
Referenced(rules) ==
    { rules[k] : k \in { n \in 1..Len(rules) :
        /\ IsName(rules[n])
        /\ n + 1 <= Len(rules)
        /\ rules[n + 1] = ";"
        /\ \E b \in 1..(n - 2) :
              /\ rules[b] = "by"
              /\ (b = 1 \/ ~IsName(rules[b - 1]))
              /\ \A t \in (b + 1)..(n - 1) : IsWs(rules[t]) } }

LogMsg(kind, name, detail) == [kind |-> kind, name |-> name, detail |-> detail]

(***************************************************************************)
(* font.glyphs[name]                                                       *)
(***************************************************************************)
GlyphNames(gs) == { gs[k].name : k \in 1..Len(gs) }

HasGlyph(gs, n) == n \in GlyphNames(gs)

GlyphNamed(gs, n) ==
    gs[CHOOSE k \in 1..Len(gs) :
          gs[k].name = n /\ \A j \in 1..(k - 1) : gs[j].name # n]

NoLayers == [m \in {} |-> 0]

(***************************************************************************)
(* create_roman_glyphs: the body of the loop over the components of one    *)
(* layer.  acc = [x: the cursor x_position, components: new_layer's        *)
(* components, log, raised].  A component glyph with no layer for the      *)
(* master makes component_glyph.layers[master_id] None, and reading its    *)
(* width raises: the component is already appended to new_layer then.      *)
(***************************************************************************)
\* place_components with the cursor set to the component's width instead of
\* advanced by it.
RECURSIVE place_components_CursorAssigned(_, _, _, _, _)
place_components_CursorAssigned(gs, components, k, master_id, acc) ==
    IF k > Len(components) THEN acc
    ELSE LET component_name == components[k]
         IN  IF ~HasGlyph(gs, component_name)
             THEN place_components_CursorAssigned(gs, components, k + 1, master_id,
                      [acc EXCEPT !.log = Append(@,
                          LogMsg("MissingComponent", component_name, {}))])
             ELSE LET component_glyph == GlyphNamed(gs, component_name)
                      component == [name |-> component_name,
                                    automaticAlignment |-> TRUE,
                                    position |-> <<acc.x, 0>>]
                      placed == [acc EXCEPT !.components = Append(@, component)]
                  IN  IF master_id \notin DOMAIN component_glyph.layers
                      THEN [placed EXCEPT !.raised = TRUE]
                      ELSE place_components_CursorAssigned(gs, components, k + 1,
                               master_id,
                               [placed EXCEPT !.x =
                                   component_glyph.layers[master_id].width])

\* place_components with every component placed at the origin, the cursor
\* still advancing.
RECURSIVE place_components_AtOrigin(_, _, _, _, _)
place_components_AtOrigin(gs, components, k, master_id, acc) ==
    IF k > Len(components) THEN acc
    ELSE LET component_name == components[k]
         IN  IF ~HasGlyph(gs, component_name)
             THEN place_components_AtOrigin(gs, components, k + 1, master_id,
                      [acc EXCEPT !.log = Append(@,
                          LogMsg("MissingComponent", component_name, {}))])
             ELSE LET component_glyph == GlyphNamed(gs, component_name)
                      component == [name |-> component_name,
                                    automaticAlignment |-> TRUE,
                                    position |-> <<0, 0>>]
                      placed == [acc EXCEPT !.components = Append(@, component)]
                  IN  IF master_id \notin DOMAIN component_glyph.layers
                      THEN [placed EXCEPT !.raised = TRUE]
                      ELSE place_components_AtOrigin(gs, components, k + 1, master_id,
                               [placed EXCEPT !.x =
                                   @ + component_glyph.layers[master_id].width])

\* place_components with an absent component raising instead of being
\* skipped with a warning.
RECURSIVE place_components_AbsentRaises(_, _, _, _, _)
place_components_AbsentRaises(gs, components, k, master_id, acc) ==
    IF k > Len(components) THEN acc
    ELSE LET component_name == components[k]
         IN  IF ~HasGlyph(gs, component_name)
             THEN [acc EXCEPT !.raised = TRUE]
             ELSE LET component_glyph == GlyphNamed(gs, component_name)
                      component == [name |-> component_name,
                                    automaticAlignment |-> TRUE,
                                    position |-> <<acc.x, 0>>]
                      placed == [acc EXCEPT !.components = Append(@, component)]
                  IN  IF master_id \notin DOMAIN component_glyph.layers
                      THEN [placed EXCEPT !.raised = TRUE]
                      ELSE place_components_AbsentRaises(gs, components, k + 1,
                               master_id,
                               [placed EXCEPT !.x =
                                   @ + component_glyph.layers[master_id].width])

RECURSIVE place_components(_, _, _, _, _)
place_components(gs, components, k, master_id, acc) ==
    IF k > Len(components) THEN acc
    ELSE LET component_name == components[k]
         IN  IF ~HasGlyph(gs, component_name)
             THEN place_components(gs, components, k + 1, master_id,
                      [acc EXCEPT !.log = Append(@,
                          LogMsg("MissingComponent", component_name, {}))])
             ELSE LET component_glyph == GlyphNamed(gs, component_name)
                      component == [name |-> component_name,
                                    automaticAlignment |-> TRUE,
                                    position |-> <<acc.x, 0>>]
                      placed == [acc EXCEPT !.components = Append(@, component)]
                  IN  IF master_id \notin DOMAIN component_glyph.layers
                      THEN [placed EXCEPT !.raised = TRUE]
                      ELSE place_components(gs, components, k + 1, master_id,
                               [placed EXCEPT !.x =
                                   @ + component_glyph.layers[master_id].width])

\* The loop over font.masters: one new layer per master, stored in
\* new_glyph.layers once its components are placed.  acc = [layers, log, raised].
RECURSIVE build_layers(_, _, _, _)
build_layers(gs, components, mi, acc) ==
    IF mi > Len(masters) THEN acc
    ELSE LET master_id == masters[mi]
             r == place_components(gs, components, 1, master_id,
                      [x |-> 0, components |-> <<>>, log |-> acc.log,
                       raised |-> FALSE])
         IN  IF r.raised
             THEN [layers |-> acc.layers, log |-> r.log, raised |-> TRUE]
             ELSE build_layers(gs, components, mi + 1,
                      [layers |-> acc.layers @@
                          (master_id :> [associatedMasterId |-> master_id,
                                         width |-> r.x,
                                         components |-> r.components]),
                       log |-> r.log, raised |-> FALSE])

\* create_entry without the guard that skips an entry whose glyph exists.
create_entry_NoSkip(gs, lg, entry) ==
    LET new_glyph ==
            [name |-> entry.glyph_name,
             unicode |-> entry.unicode_hex,
             productionName |->
                 IF entry.unicode_hex # "" THEN "uni" \o entry.unicode_hex
                 ELSE "",
             layers |-> NoLayers]
        r == build_layers(Append(gs, new_glyph), entry.components, 1,
                 [layers |-> NoLayers,
                  log |-> Append(lg, LogMsg("Created", entry.glyph_name, {})),
                  raised |-> FALSE])
    IN  [glyphs |-> Append(gs, [new_glyph EXCEPT !.layers = r.layers]),
         log |-> IF r.raised
                 THEN Append(r.log, LogMsg("Error", entry.glyph_name, {}))
                 ELSE r.log,
         raised |-> r.raised]

\* One iteration of the loop over roman_glyphs, its try/except included:
\* the document and the output after it, and whether the entry raised.
create_entry(gs, lg, entry) ==
    IF HasGlyph(gs, entry.glyph_name)
    THEN [glyphs |-> gs,
          log |-> Append(lg, LogMsg("Skipping", entry.glyph_name, {})),
          raised |-> FALSE]
    ELSE LET new_glyph ==
                 [name |-> entry.glyph_name,
                  unicode |-> entry.unicode_hex,
                  productionName |->
                      IF entry.unicode_hex # "" THEN "uni" \o entry.unicode_hex
                      ELSE "",
                  layers |-> NoLayers]
             r == build_layers(Append(gs, new_glyph), entry.components, 1,
                      [layers |-> NoLayers,
                       log |-> Append(lg, LogMsg("Created", entry.glyph_name, {})),
                       raised |-> FALSE])
         IN  [glyphs |-> Append(gs, [new_glyph EXCEPT !.layers = r.layers]),
              log |-> IF r.raised
                      THEN Append(r.log, LogMsg("Error", entry.glyph_name, {}))
                      ELSE r.log,
              raised |-> r.raised]

\* loop_next with the exception ending the loop instead of the entry.
loop_next_StopOnRaise(k, raised) ==
    IF k < Len(roman_glyphs) /\ ~raised THEN [pc |-> "create", idx |-> k + 1]
    ELSE [pc |-> "ss01", idx |-> k + 1]

\* Where the loop goes after entry k: the except clause swallows the
\* exception, so the next entry follows whether or not the entry raised.
loop_next(k, raised) ==
    IF k < Len(roman_glyphs) THEN [pc |-> "create", idx |-> k + 1]
    ELSE [pc |-> "ss01", idx |-> k + 1]

(***************************************************************************)
(* add_opentype_features                                                   *)
(***************************************************************************)
FeatureIndex(fs, feature_name) ==
    IF \E k \in 1..Len(fs) : fs[k].name = feature_name
    THEN CHOOSE k \in 1..Len(fs) :
             fs[k].name = feature_name /\ \A j \in 1..(k - 1) : fs[j].name # feature_name
    ELSE 0

Missing(gs, rules) == Referenced(rules) \ GlyphNames(gs)

\* update_feature without the check for missing glyphs.
update_feature_NoMissingCheck(fs, gs, feature_name, rules) ==
    LET e == FeatureIndex(fs, feature_name)
    IN  IF e # 0
        THEN IF ~Contains(fs[e].code, Strip(rules))
             THEN [features |-> [fs EXCEPT ![e].code = Strip(@) \o <<"\n">> \o rules],
                   msg |-> LogMsg("Updated", feature_name, {})]
             ELSE [features |-> fs, msg |-> LogMsg("AlreadyExist", feature_name, {})]
        ELSE [features |-> Append(fs, [name |-> feature_name, code |-> rules]),
              msg |-> LogMsg("CreatedFeature", feature_name, {})]

\* update_feature appending the block whether or not the code holds it.
update_feature_AlwaysAppend(fs, gs, feature_name, rules) ==
    LET missing == Missing(gs, rules)
        e == FeatureIndex(fs, feature_name)
    IN  IF missing # {}
        THEN [features |-> fs, msg |-> LogMsg("CannotAdd", feature_name, missing)]
        ELSE IF e # 0
        THEN [features |-> [fs EXCEPT ![e].code = Strip(@) \o <<"\n">> \o rules],
              msg |-> LogMsg("Updated", feature_name, {})]
        ELSE [features |-> Append(fs, [name |-> feature_name, code |-> rules]),
              msg |-> LogMsg("CreatedFeature", feature_name, {})]

\* update_feature appending to the code as it is, not to the stripped code.
update_feature_NoStrip(fs, gs, feature_name, rules) ==
    LET missing == Missing(gs, rules)
        e == FeatureIndex(fs, feature_name)
    IN  IF missing # {}
        THEN [features |-> fs, msg |-> LogMsg("CannotAdd", feature_name, missing)]
        ELSE IF e # 0
        THEN IF ~Contains(fs[e].code, Strip(rules))
             THEN [features |-> [fs EXCEPT ![e].code = @ \o <<"\n">> \o rules],
                   msg |-> LogMsg("Updated", feature_name, {})]
             ELSE [features |-> fs, msg |-> LogMsg("AlreadyExist", feature_name, {})]
        ELSE [features |-> Append(fs, [name |-> feature_name, code |-> rules]),
              msg |-> LogMsg("CreatedFeature", feature_name, {})]

\* update_feature(feature_name, rules): the feature list after it and the
\* line it prints.  The missing names are printed in the iteration order of
\* a Python set; the message carries them as a set.
update_feature(fs, gs, feature_name, rules) ==
    LET missing == Missing(gs, rules)
        e == FeatureIndex(fs, feature_name)
    IN  IF missing # {}
        THEN [features |-> fs, msg |-> LogMsg("CannotAdd", feature_name, missing)]
        ELSE IF e # 0
        THEN IF ~Contains(fs[e].code, Strip(rules))
             THEN [features |-> [fs EXCEPT ![e].code = Strip(@) \o <<"\n">> \o rules],
                   msg |-> LogMsg("Updated", feature_name, {})]
             ELSE [features |-> fs, msg |-> LogMsg("AlreadyExist", feature_name, {})]
        ELSE [features |-> Append(fs, [name |-> feature_name, code |-> rules]),
              msg |-> LogMsg("CreatedFeature", feature_name, {})]

IsOther(f) == f.name \notin {"ss01", "liga"}

\* reorder appending liga before ss01.
reorder_Swapped(fs) ==
    LET s == FeatureIndex(fs, "ss01")
        l == FeatureIndex(fs, "liga")
    IN  IF s # 0 /\ l # 0 /\ l < s
        THEN [features |-> SelectSeq(fs, IsOther) \o <<fs[l], fs[s]>>,
              out |-> <<LogMsg("Reordered", "ss01", {})>>]
        ELSE [features |-> fs, out |-> <<>>]

\* The reordering step: the feature list after it and what it prints.
reorder(fs) ==
    LET s == FeatureIndex(fs, "ss01")
        l == FeatureIndex(fs, "liga")
    IN  IF s # 0 /\ l # 0 /\ l < s
        THEN [features |-> SelectSeq(fs, IsOther) \o <<fs[s], fs[l]>>,
              out |-> <<LogMsg("Reordered", "ss01", {})>>]
        ELSE [features |-> fs, out |-> <<>>]

(***************************************************************************)
(* The documents the macro is started on.                                  *)
(***************************************************************************)
BaseLetters == <<"I", "V", "X", "L", "C", "D", "M">>

TableNames == { roman_glyphs[k].glyph_name : k \in 1..Len(roman_glyphs) }

\* The glyphs the rule blocks substitute by, except Twenty-roman, which the
\* table builds.
TargetNames ==
    <<"One-roman", "Two-roman", "Three-roman", "Four-roman", "Five-roman",
      "Six-roman", "Seven-roman", "Eight-roman", "Nine-roman", "Ten-roman",
      "Eleven-roman", "Twelve-roman", "Fifty-roman", "Hundred-roman",
      "Fivehundred-roman", "Thousand-roman">>

\* The letters a document may lack, or hold with a layer missing, and the
\* names of the table it may already hold a glyph under.
DefectLetters == {"I", "V", "X", "M"}

PreexistingNames == {"<U+2160>", "<U+2163>", "Twenty-roman"}

\* What a document may lack or hold on top of the letters: a letter absent,
\* a letter with no layer for one master, a glyph already there under a
\* name of the table.
Defects ==
    { <<"absent", b, "">> : b \in DefectLetters }
    \cup { <<"nolayer", b, masters[k]>> : b \in DefectLetters, k \in 1..NumMasters }
    \cup { <<"exists", t, "">> : t \in PreexistingNames }

RECURSIVE SubsetsUpTo(_, _)
SubsetsUpTo(S, n) ==
    IF n = 0 THEN {{}}
    ELSE LET P == SubsetsUpTo(S, n - 1)
         IN  P \cup { p \cup {d} : p \in P, d \in S }

PlainGlyph(n, layerOf, ms) ==
    [name |-> n, unicode |-> "", productionName |-> "",
     layers |-> [m \in ms |->
                    [associatedMasterId |-> m, width |-> layerOf[m],
                     components |-> <<>>]]]

MasterIds == { masters[k] : k \in 1..NumMasters }

MasterIndex(m) == CHOOSE k \in 1..NumMasters : masters[k] = m

\* The document with the defects D, letter j being w * (j + k) wide in
\* master k; absentTargets are the substitution targets it lacks.
Document(D, w, absentTargets) ==
    LET letters == SelectSeq(BaseLetters, LAMBDA b : <<"absent", b, "">> \notin D)
        letterIndex(b) == CHOOSE j \in 1..Len(BaseLetters) : BaseLetters[j] = b
        letterGlyph(b) ==
            PlainGlyph(b, [m \in MasterIds |-> w * (letterIndex(b) + MasterIndex(m))],
                       { m \in MasterIds : <<"nolayer", b, m>> \notin D })
        targets == SelectSeq(TargetNames, LAMBDA t : t \notin absentTargets)
        present == SelectSeq([k \in 1..Len(roman_glyphs) |-> roman_glyphs[k].glyph_name],
                             LAMBDA t : <<"exists", t, "">> \in D)
    IN  [k \in 1..Len(letters) |-> letterGlyph(letters[k])]
        \o [k \in 1..Len(targets) |->
               PlainGlyph(targets[k], [m \in MasterIds |-> w], MasterIds)]
        \o [k \in 1..Len(present) |->
               PlainGlyph(present[k], [m \in MasterIds |-> w], MasterIds)]

FeatureNames == {"ss01", "liga", "kern"}

RulesOf(feature_name) == IF feature_name = "ss01" THEN ss01_rules ELSE liga_rules

UserCode == <<"sub", " ", "a", " ", "by", " ", "b", ";">>

\* The code an ss01 or liga feature of the starting document may hold.
Shapes ==
    {"empty", "blank", "user", "padded", "block", "verbatim", "embedded", "reflowed"}

ShapeCode(shape, rules) ==
    CASE shape = "empty" -> <<>>
      [] shape = "blank" -> <<"\n", " ">>
      [] shape = "user" -> UserCode
      [] shape = "padded" -> <<"\n", " ">> \o UserCode \o <<" ", "\n">>
      [] shape = "block" -> Strip(rules)
      [] shape = "verbatim" -> rules
      [] shape = "embedded" -> <<" ">> \o UserCode \o <<"\n">> \o Strip(rules)
                                \o <<"\n">> \o UserCode \o <<" ">>
      [] shape = "reflowed" -> SelectSeq(Strip(rules), LAMBDA t : t # " ")

FeatureList(names, shape) ==
    [k \in 1..Len(names) |->
        [name |-> names[k],
         code |-> IF names[k] = "kern" THEN UserCode
                  ELSE ShapeCode(shape, RulesOf(names[k]))]]

NameLists == UNION { [1..n -> FeatureNames] : n \in 0..MaxFeatures }

AbsentTargetChoices == SUBSET {"Nine-roman", "Thousand-roman"}

(***************************************************************************)
(* The state machine.                                                      *)
(***************************************************************************)
Start(gs, fs) ==
    /\ glyphs = gs
    /\ features = fs
    /\ features0 = fs
    /\ log = <<>>
    /\ pc = "create"
    /\ idx = 1
    /\ rerun = FALSE

\* Documents that differ in their glyphs.
Init ==
    \E D \in SubsetsUpTo(Defects, MaxDefects), w \in 1..MaxWidth :
        Start(Document(D, w, {}), <<>>)

\* Documents that differ in their features and substitution targets.
FeatureInit ==
    \E names \in NameLists, shape \in Shapes, absent \in AbsentTargetChoices :
        Start(Document({}, 1, absent), FeatureList(names, shape))

ProcessEntry ==
    /\ pc = "create"
    /\ LET r == create_entry(glyphs, log, roman_glyphs[idx])
           n == loop_next(idx, r.raised)
       IN  /\ glyphs' = r.glyphs
           /\ log' = r.log
           /\ pc' = n.pc
           /\ idx' = n.idx
    /\ UNCHANGED <<features, rerun, features0>>

UpdateSs01 ==
    /\ pc = "ss01"
    /\ LET r == update_feature(features, glyphs, "ss01", ss01_rules)
       IN  /\ features' = r.features
           /\ log' = Append(log, r.msg)
    /\ pc' = "liga"
    /\ UNCHANGED <<glyphs, idx, rerun, features0>>

UpdateLiga ==
    /\ pc = "liga"
    /\ LET r == update_feature(features, glyphs, "liga", liga_rules)
       IN  /\ features' = r.features
           /\ log' = Append(log, r.msg)
    /\ pc' = "reorder"
    /\ UNCHANGED <<glyphs, idx, rerun, features0>>

Reorder ==
    /\ pc = "reorder"
    /\ LET r == reorder(features)
       IN  /\ features' = r.features
           /\ log' = log \o r.out
    /\ pc' = "done"
    /\ UNCHANGED <<glyphs, idx, rerun, features0>>

\* The macro is run again on the document it left.
RunAgain ==
    /\ pc = "done"
    /\ pc' = "create"
    /\ idx' = 1
    /\ log' = <<>>
    /\ rerun' = TRUE
    /\ features0' = features
    /\ UNCHANGED <<glyphs, features>>

Next == ProcessEntry \/ UpdateSs01 \/ UpdateLiga \/ Reorder \/ RunAgain

Spec == Init /\ [][Next]_vars

FeatureSpec == FeatureInit /\ [][Next]_vars

(***************************************************************************)
(* Vocabulary of the properties.                                           *)
(***************************************************************************)
Entries == 1..Len(roman_glyphs)

NameOf(k) == roman_glyphs[k].glyph_name

LogHas(kind, name) ==
    \E p \in 1..Len(log) : log[p].kind = kind /\ log[p].name = name

\* create_roman_glyphs has returned from its first run on the document, and
\* it built entry k.
Constructed(k) == ~rerun /\ pc = "ss01" /\ LogHas("Created", NameOf(k))

NoDuplicateNames(gs) ==
    \A j, k \in 1..Len(gs) : j # k => gs[j].name # gs[k].name

HasLayer(gs, n, m) == HasGlyph(gs, n) /\ m \in DOMAIN GlyphNamed(gs, n).layers

\* The components of an entry that the document holds, in table order.
PresentComponents(gs, components) ==
    SelectSeq(components, LAMBDA c : HasGlyph(gs, c))

\* Sum of the widths in master m of the named glyphs; a glyph the document
\* lacks, or one with no layer for m, has no width and adds nothing.
RECURSIVE WidthSum(_, _, _)
WidthSum(gs, names, m) ==
    IF names = <<>> THEN 0
    ELSE (IF HasLayer(gs, Head(names), m)
          THEN GlyphNamed(gs, Head(names)).layers[m].width ELSE 0)
         + WidthSum(gs, Tail(names), m)

\* The masters whose layer the build of the components completes: those
\* before the first master for which a present component has no layer.
BuiltMasters(gs, components) ==
    { masters[k] : k \in { n \in 1..NumMasters :
        \A j \in 1..n : \A p \in 1..Len(components) :
            HasGlyph(gs, components[p]) => HasLayer(gs, components[p], masters[j]) } }

\* Entry k raises: a component it places has no layer for some master.
Raises(gs, k) == BuiltMasters(gs, roman_glyphs[k].components) # MasterIds

\* The glyph that building entry k alone, on the document without any glyph
\* of the table, leaves.
Alone(gs, k) ==
    LET letters == SelectSeq(gs, LAMBDA g : g.name \notin TableNames)
        r == create_entry(letters, <<>>, roman_glyphs[k])
    IN  r.glyphs[Len(r.glyphs)]

IsPrefix(a, b) == Len(a) <= Len(b) /\ SubSeq(b, 1, Len(a)) = a

IsSuffix(a, b) == Len(a) <= Len(b) /\ SubSeq(b, Len(b) - Len(a) + 1, Len(b)) = a

Count(fs, f) == Cardinality({ k \in 1..Len(fs) : fs[k] = f })

IsPermutation(a, b) ==
    /\ Len(a) = Len(b)
    /\ \A k \in 1..Len(a) : Count(a, a[k]) = Count(b, a[k])

IsMergeStep == pc \in {"ss01", "liga"}

(***************************************************************************)
(* C1.  Running create_roman_glyphs again on the document a run left is    *)
(* idempotent: every step of the second run leaves font.glyphs as it is    *)
(* (no glyph added, no glyph or layer changed, glyphs that existed under a *)
(* name of the table before the first run included), no glyph name occurs  *)
(* twice, and the step only prints that it skips the entry.                *)
(***************************************************************************)
C1_RerunIdempotent ==
    [][(rerun /\ pc = "create") =>
          /\ glyphs' = glyphs
          /\ NoDuplicateNames(glyphs')
          /\ log' = Append(log, LogMsg("Skipping", NameOf(idx), {}))]_vars

\* The second run of the glyph step is over, on a document that held a glyph
\* named U+2160 before the first run; that glyph still has no components.
C1_Witness ==
    /\ rerun /\ pc = "ss01"
    /\ Len(log) = Len(roman_glyphs)
    /\ HasGlyph(glyphs, "<U+2160>")
    /\ GlyphNamed(glyphs, "<U+2160>").unicode = ""
    /\ GlyphNamed(glyphs, "<U+2163>").unicode = "2163"

AbsentComponents(k) ==
    { roman_glyphs[k].components[p] : p \in 1..Len(roman_glyphs[k].components) }
        \ GlyphNames(glyphs)

SkipsAbsent(k) ==
    LET g == GlyphNamed(glyphs, NameOf(k))
    IN  \A m \in DOMAIN g.layers :
            [p \in 1..Len(g.layers[m].components) |-> g.layers[m].components[p].name]
                = PresentComponents(glyphs, roman_glyphs[k].components)

\* While entry k was processed (after its "Created" line, before the line
\* that opens the next entry) the warning naming component c was printed.
Warned(k, c) ==
    \E p, q \in 1..Len(log) :
        /\ p < q
        /\ log[p].kind = "Created" /\ log[p].name = NameOf(k)
        /\ log[q].kind = "MissingComponent" /\ log[q].name = c
        /\ \A t \in (p + 1)..q : log[t].kind \notin {"Created", "Skipping"}

OthersUnaffected(k) ==
    \A j \in Entries \ {k} :
        Constructed(j) => GlyphNamed(glyphs, NameOf(j)) = Alone(glyphs, j)

WarnedWhenReached(k, c) ==
    LET reached ==
            \E p \in 1..Len(roman_glyphs[k].components) :
                /\ roman_glyphs[k].components[p] = c
                /\ \A q \in 1..(p - 1) :
                       HasGlyph(glyphs, roman_glyphs[k].components[q])
                           => HasLayer(glyphs, roman_glyphs[k].components[q], masters[1])
    IN  reached => Warned(k, c)

C8_ComponentOffsets ==
    \A k \in Entries : Constructed(k) =>
        LET g == GlyphNamed(glyphs, NameOf(k))
            placed == PresentComponents(glyphs, roman_glyphs[k].components)
        IN  \A m \in DOMAIN g.layers :
                LET cs == g.layers[m].components
                IN  /\ Len(cs) = Len(placed)
                    /\ \A p \in 1..Len(cs) :
                           /\ cs[p].name = placed[p]
                           /\ cs[p].position
                                  = <<WidthSum(glyphs, SubSeq(placed, 1, p - 1), m), 0>>

\* U+2163 (I, V) in the first master: I at 0, V at the width of I, the layer
\* as wide as both.
C8_Witness ==
    /\ Constructed(4)
    /\ HasLayer(glyphs, "<U+2163>", masters[1])
    /\ HasLayer(glyphs, "I", masters[1]) /\ HasLayer(glyphs, "V", masters[1])
    /\ LET l == GlyphNamed(glyphs, "<U+2163>").layers[masters[1]]
           wI == GlyphNamed(glyphs, "I").layers[masters[1]].width
           wV == GlyphNamed(glyphs, "V").layers[masters[1]].width
       IN  /\ Len(l.components) = 2
           /\ l.components[1].name = "I" /\ l.components[1].position = <<0, 0>>
           /\ l.components[2].name = "V" /\ l.components[2].position = <<wI, 0>>
           /\ wI > 0
           /\ l.width = wI + wV

(***************************************************************************)
(* C9.  An exception in one entry is caught and printed and the loop goes  *)
(* on: the glyph of the failing entry stays in the document as far as it   *)
(* was built, every entry is processed (created or skipped) by the end of  *)
(* the loop, and every entry after a failing one is built as it is built   *)
(* alone.                                                                  *)
(***************************************************************************)
Processed(k) == LogHas("Created", NameOf(k)) \/ LogHas("Skipping", NameOf(k))

C9_ExceptionContinues ==
    ~rerun =>
        /\ \A k \in Entries :
               /\ (pc # "create" \/ k < idx) => Processed(k)
               /\ (Constructed(k) /\ Raises(glyphs, k)) =>
                      /\ LogHas("Error", NameOf(k))
                      /\ HasGlyph(glyphs, NameOf(k))
                      /\ DOMAIN GlyphNamed(glyphs, NameOf(k)).layers
                             = BuiltMasters(glyphs, roman_glyphs[k].components)
                      /\ \A j \in Entries :
                             (j > k /\ Constructed(j)) =>
                                 GlyphNamed(glyphs, NameOf(j)) = Alone(glyphs, j)
        /\ (pc = "create") => idx \in Entries

\* The loop is over; U+2160 (I) raised and kept no layer of the second
\* master, and the last entry, Twenty-roman (X, X), was built in full.
C9_Witness ==
    /\ ~rerun /\ pc = "ss01"
    /\ LogHas("Error", "<U+2160>")
    /\ DOMAIN GlyphNamed(glyphs, "<U+2160>").layers = {masters[1]}
    /\ Constructed(Len(roman_glyphs))
    /\ DOMAIN GlyphNamed(glyphs, "Twenty-roman").layers = MasterIds

C4_MissingGlyphNoWrite ==
    [][(IsMergeStep /\ ~(Referenced(RulesOf(pc)) \subseteq GlyphNames(glyphs))) =>
          /\ features' = features
          /\ log' = Append(log, LogMsg("CannotAdd", pc,
                                Referenced(RulesOf(pc)) \ GlyphNames(glyphs)))]_vars

\* The ss01 merge went through and extended a feature; the liga merge found
\* Thousand-roman missing and left the list alone.
C4_Witness ==
    /\ pc = "reorder"
    /\ LogHas("Updated", "ss01")
    /\ log[Len(log)] = LogMsg("CannotAdd", "liga", {"Thousand-roman"})
    /\ FeatureIndex(features, "liga") # 0
    /\ features[FeatureIndex(features, "liga")].code = UserCode

(***************************************************************************)
(* C5.  A merge into an existing feature whose code holds the rule block   *)
(* as a substring leaves the feature list as it is; and after a merge that *)
(* created or extended a feature, merging the same block again changes     *)
(* nothing: neither at once, nor when the macro is run again.              *)
(***************************************************************************)
C5_NoDuplicateBlock ==
    [][IsMergeStep =>
          LET e == FeatureIndex(features, pc)
          IN  /\ (e # 0 /\ Contains(features[e].code, Strip(RulesOf(pc))))
                     => features' = features
              /\ features' # features =>
                     update_feature(features', glyphs', pc, RulesOf(pc)).features
                         = features'
              /\ rerun => features' = features]_vars

Occurrences(hay, needle) ==
    Cardinality({ k \in 0..Len(hay) :
        /\ k + Len(needle) <= Len(hay)
        /\ SubSeq(hay, k + 1, k + Len(needle)) = needle })

\* The macro ran again on a font whose ss01 feature the first run extended:
\* the second merge found the block, and the code holds it once.
C5_Witness ==
    /\ rerun /\ pc = "liga"
    /\ log[Len(log)] = LogMsg("AlreadyExist", "ss01", {})
    /\ features[FeatureIndex(features, "ss01")].code
           = UserCode \o <<"\n">> \o ss01_rules
    /\ Occurrences(features[FeatureIndex(features, "ss01")].code, Strip(ss01_rules)) = 1

(***************************************************************************)
(* C7, as stated: when a merge extends an existing feature, the code the   *)
(* feature had is, unmodified, the leading part of its new code, and the   *)
(* rule block is the end of the new code.                                  *)
(***************************************************************************)
Extends(e) ==
    /\ IsMergeStep
    /\ e = FeatureIndex(features, pc)
    /\ e # 0
    /\ Len(features') = Len(features)
    /\ features'[e].code # features[e].code

C7_PriorCodeIsPrefix ==
    [][\A e \in 1..Len(features) : Extends(e) =>
          /\ IsPrefix(features[e].code, features'[e].code)
          /\ IsSuffix(RulesOf(pc), features'[e].code)]_vars

(***************************************************************************)
(* C7, amended: when a merge extends an existing feature, the code the     *)
(* feature had, less its leading and trailing whitespace, is the leading   *)
(* part of its new code, a newline and the rule block follow it and end    *)
(* the code, and no other feature changes.                                 *)
(***************************************************************************)
C7_StrippedCodeIsPrefix ==
    [][\A e \in 1..Len(features) : Extends(e) =>
          /\ IsPrefix(Strip(features[e].code), features'[e].code)
          /\ IsSuffix(<<"\n">> \o RulesOf(pc), features'[e].code)
          /\ Len(features'[e].code)
                 = Len(Strip(features[e].code)) + 1 + Len(RulesOf(pc))
          /\ features'[e].name = features[e].name
          /\ \A j \in 1..Len(features) : j # e => features'[j] = features[j]]_vars

\* The ss01 merge extended a feature whose code had whitespace around the
\* user's rule: the new code starts with the rule, not with the whitespace.
C7_Witness ==
    /\ pc = "liga" /\ ~rerun
    /\ log[Len(log)] = LogMsg("Updated", "ss01", {})
    /\ features0[FeatureIndex(features0, "ss01")].code
           = <<"\n", " ">> \o UserCode \o <<" ", "\n">>
    /\ features[FeatureIndex(features, "ss01")].code
           = UserCode \o <<"\n">> \o ss01_rules

(***************************************************************************)
(* C10.  The reordering step neither drops nor duplicates a feature: the   *)
(* feature list after it is a permutation of the list before it, also when *)
(* several features are named ss01 or liga.                                *)
(***************************************************************************)
C10_ReorderIsPermutation ==
    [][pc = "reorder" => IsPermutation(features, features')]_vars

====
